---- MODULE Spec2Model ----
(***************************************************************************)
(* Model of the browser session service of routes/browser_core.py: the     *)
(* session registry (BrowserSessionManager), the per-session tab maps, the *)
(* idle reaper, the navigation history of each tab, and the request /      *)
(* response and streaming callers of these.                                 *)
(*                                                                         *)
(* The service runs on one asyncio event loop.  A flow only gives up       *)
(* control at an await that really suspends (an engine call, a timer, a    *)
(* lock that is held).  Every action below is one such atomic block: from  *)
(* one suspension point to the next.                                       *)
(***************************************************************************)
EXTENDS Integers, Sequences, FiniteSets, TLC

\* ----------------------------------------------------------------- bounds
MaxSessions == 2
\* the sessions create_session registers in one run
MaxCreated == 1
MaxTabs == 2
NumClients == 2
MaxHist == 3
MaxTicks == 1
\* seconds of wall clock in one tick of the model's clock
TickSeconds == 2000

\* -------------------------------------------------------------- constants
SESSION_TTL_SECONDS == 1800
TAB_TTL_SECONDS == 1800

SessionIds == 1..MaxSessions
\* the session ids the clients of one run have been given
CreatedIds == 1..MaxCreated
TabIds == 1..MaxTabs
Clients == 1..NumClients
\* Python's None for an identifier
None == 0

VARIABLES
  sessions,        \* self.sessions: the ids registered
  tabs,            \* session["tabs"]: the tab ids, in insertion order
  active_tab_id,   \* session["active_tab_id"]
  sess_last_used,  \* session["last_used"], in ticks
  lock,            \* session["lock"]: the client holding it, or None
  history,         \* tab["history"]
  history_index,   \* tab["history_index"]
  tab_last_used,   \* tab["last_used"], in ticks
  nextSid,         \* the next fresh session id (uuid4)
  nextTid,         \* the next fresh tab id (uuid4)
  now,             \* the clock, in ticks
  playwright,      \* self.playwright is not None
  browser,         \* self.browser is not None
  initLock,        \* self._lock: the client holding it, or None
  rpc,             \* where the reaper task is
  rloc,            \* the locals of the reaper's sweep
  pc,              \* where each client's flow is
  loc,             \* the request a client's flow is handling
  resp,            \* the answer the last step sent, if it sent one
  ws,              \* each client's streaming connection
  tr               \* per tab, what has been done to its history so far

regVars == <<sessions, tabs, active_tab_id, sess_last_used, lock>>
tabVars == <<history, history_index, tab_last_used>>
idVars == <<nextSid, nextTid>>
engVars == <<playwright, browser, initLock>>
reapVars == <<rpc, rloc>>
cliVars == <<pc, loc, ws>>
vars == <<sessions, tabs, active_tab_id, sess_last_used, lock, history,
          history_index, tab_last_used, nextSid, nextTid, now, playwright,
          browser, initLock, rpc, rloc, pc, loc, resp, ws, tr>>

\* ------------------------------------------------------------------ URLs
\* A URL is its scheme, the text after "://" up to "?", and the q parameter.
UrlA == [scheme |-> "https", page |-> "a.example", q |-> ""]
UrlB == [scheme |-> "https", page |-> "b.example", q |-> ""]
UrlSearch == [scheme |-> "Chrome", page |-> "search", q |-> "x"]
UrlOther == [scheme |-> "chrome", page |-> "settings", q |-> ""]
NoUrl == [scheme |-> "", page |-> "", q |-> ""]
\* the URLs a client asks for
Urls == {UrlA, UrlSearch, UrlOther}

Lower(s) == IF s = "Chrome" THEN "chrome" ELSE s

_is_internal(url) == Lower(url.scheme) = "chrome"

\* TRUE when _parse_internal_search returns a query (not None)
_parse_internal_search(url) ==
  Lower(url.scheme) = "chrome" /\ Lower(url.page) = "search"

\* page.url after page.goto(url): the URL itself, or where it redirected to
FinalUrls(url) == {url, UrlB}

\* ------------------------------------------------------------- sequences
Has(seq, x) == \E i \in 1..Len(seq) : seq[i] = x
Without(seq, x) == SelectSeq(seq, LAMBDA y : y # x)

RECURSIVE SortedSeq(_)
SortedSeq(S) ==
  IF S = {} THEN <<>>
  ELSE LET m == CHOOSE x \in S : \A y \in S : x <= y
       IN <<m>> \o SortedSeq(S \ {m})

\* ------------------------------------------------------ requests, answers
Vias == {"http", "ws"}
\* rtid: the tab get_page resolved the request to
\* only: close_tab popped its session's only tab; boundary: the back or forward
\* found the cursor at the end it moves towards; asked: it awaited the engine;
\* cse: the page the search call of a navigation to a search URL led to;
\* keys: the session ids cleanup has yet to close
NoReq == [op |-> "none", via |-> "none", sid |-> None, tid |-> None,
          url |-> NoUrl, rtid |-> None, only |-> FALSE, boundary |-> FALSE,
          asked |-> FALSE, cse |-> "none", keys |-> <<>>]
Req(op, via, sid, tid, url) ==
  [NoReq EXCEPT !.op = op, !.via = via, !.sid = sid, !.tid = tid,
                !.url = url]
\* What the step just taken completed, and the answer it sent: an HTTP status
\* word or a message on the socket ("none": nothing was sent).  For a
\* screenshot message, tid is its "tab_id" and page the tab that was captured.
NoResp == [op |-> "none", via |-> "none", status |-> "none",
           sid |-> None, tid |-> None, last |-> FALSE, boundary |-> FALSE,
           asked |-> FALSE, cse |-> "none", page |-> None]
Resp(c, r, status, sid, tid) ==
  [op |-> r.op, via |-> r.via, status |-> status, sid |-> sid,
   tid |-> tid, last |-> r.only, boundary |-> r.boundary, asked |-> r.asked,
   cse |-> r.cse, page |-> None]
\* A streaming connection: the locals of websocket_endpoint (open: the handler
\* is past accept and not yet in its finally block, which is `streaming`),
\* where its frame pump is (pump), whether the client is still there (up), the
\* name of the last state notification that went out to the client (wire),
\* whether one went out that had the name of the one before it (dup), and the
\* tab whose page the frame pump holds for the frame it is making (shot)
NoWs == [open |-> FALSE, sid |-> None, active_tab_id |-> None,
         is_navigating |-> FALSE, last_sent_state |-> "none", up |-> FALSE,
         pump |-> "off", wire |-> "none", dup |-> FALSE, shot |-> None]
\* navs: the successful navigations of the tab, while nothing but successful
\* navigations has touched its history (pure); bf: a back from cursor c0 > 0 on history h0 was the last
\* thing done to the tab ("back"), or that and then a forward ("backfwd")
NoTr == [navs |-> 0, pure |-> TRUE, bf |-> "none", c0 |-> 0, h0 |-> <<>>]
NoRloc == [now |-> 0, sids |-> <<>>, si |-> 0, snap |-> <<>>, ti |-> 0,
           to_close |-> <<>>, ci |-> 0, emptied |-> {}]

\* client c may send r: over HTTP, or as a command on its open connection
Call(c, r) ==
  /\ pc[c] = "idle"
  /\ r.via = "ws" => ws[c].open /\ r.sid = ws[c].sid

\* the flow handling r suspends at label
Suspend(c, r, label) ==
  /\ pc' = [pc EXCEPT ![c] = label]
  /\ loc' = [loc EXCEPT ![c] = r]
  /\ resp' = NoResp

\* the flow returns: its answer is sent and its locals are dropped
Return(c, a) ==
  /\ pc' = [pc EXCEPT ![c] = "idle"]
  /\ loc' = [loc EXCEPT ![c] = NoReq]
  /\ resp' = a

\* the command loop is left for the finally block: `streaming = False`, the
\* frame pump is cancelled, and the handler suspends in `await stream_task`
Leave(c, a) ==
  /\ pc' = [pc EXCEPT ![c] = "ws_end"]
  /\ loc' = [loc EXCEPT ![c] = NoReq]
  /\ resp' = a
  /\ ws' = [ws EXCEPT ![c].open = FALSE, ![c].pump = "off", ![c].shot = None]

\* the answer to a failure: an HTTP status, or an error message on the socket
Fail(c, r, httpStatus) ==
  Resp(c, r, IF r.via = "http" THEN httpStatus ELSE "error", r.sid, r.tid)

\* `if state == last_sent_state: return`
DedupNever(state, last) == FALSE
Dedup(state, last) == state = last

\* the connection w after send_state(state): the notification goes out unless
\* it is the one sent last, or the client is gone (send_json raises, which
\* send_state suppresses)
send_state(w, state) ==
  IF Dedup(state, w.last_sent_state) THEN w
  ELSE [w EXCEPT !.last_sent_state = state,
                 !.wire = IF w.up THEN state ELSE @,
                 !.dup = @ \/ (w.up /\ w.wire = state)]

\* ------------------------------------------------------------------ Init
Init ==
  /\ sessions = {}
  /\ tabs = [s \in SessionIds |-> <<>>]
  /\ active_tab_id = [s \in SessionIds |-> None]
  /\ sess_last_used = [s \in SessionIds |-> 0]
  /\ lock = [s \in SessionIds |-> None]
  /\ history = [t \in TabIds |-> <<>>]
  /\ history_index = [t \in TabIds |-> -1]
  /\ tab_last_used = [t \in TabIds |-> 0]
  /\ nextSid = 1
  /\ nextTid = 1
  /\ now = 0
  /\ playwright = FALSE
  /\ browser = FALSE
  /\ initLock = None
  /\ rpc = "off"
  /\ rloc = NoRloc
  /\ pc = [c \in Clients |-> "idle"]
  /\ loc = [c \in Clients |-> NoReq]
  /\ resp = NoResp
  /\ ws = [c \in Clients |-> NoWs]
  /\ tr = [t \in TabIds |-> NoTr]

\* ------------------------------------------------------------- the clock
Tick ==
  /\ now < MaxTicks
  /\ now' = now + 1
  /\ resp' = NoResp
  /\ UNCHANGED <<regVars, tabVars, idVars, engVars, reapVars, cliVars, tr>>

\* --------------------------------------------------------- create_session
\* self._cleanup_task is None or done: the reaper task is (re)started
StartReaper(r) == IF r = "off" THEN "sleep" ELSE r

\* `async with self._lock`: the caller waits while another call holds it
LockedNever(l) == FALSE
Locked(l) == l # None

\* initialize(), entered with self._lock free
DoInitialize(c, r) ==
  IF ~playwright
  THEN \* suspend in async_playwright().start() / launch(), holding the lock
       /\ initLock' = c
       /\ Suspend(c, r, "cs_launch")
       /\ UNCHANGED <<playwright, browser, rpc>>
  ELSE /\ rpc' = StartReaper(rpc)
       /\ UNCHANGED <<playwright, browser, initLock>>
       /\ IF browser
          THEN Suspend(c, r, "cs_ctx")
          ELSE Return(c, Resp(c, r, "500", None, None))

CreateSessionStart(c) ==
  LET r == Req("create_session", "http", None, None, NoUrl) IN
  /\ Call(c, r)
  /\ IF Locked(initLock)
     THEN Suspend(c, r, "cs_lock") /\ UNCHANGED <<engVars, rpc>>
     ELSE DoInitialize(c, r)
  /\ UNCHANGED <<regVars, tabVars, idVars, now, tr, rloc, ws>>

CreateSessionLock(c) ==
  /\ pc[c] = "cs_lock" /\ ~Locked(initLock)
  /\ DoInitialize(c, loc[c])
  /\ UNCHANGED <<regVars, tabVars, idVars, now, tr, rloc, ws>>

\* the engine has answered start() and launch()
CreateSessionLaunch(c) ==
  /\ pc[c] = "cs_launch"
  /\ initLock' = None
  /\ \/ /\ playwright' = TRUE /\ browser' = TRUE
        /\ rpc' = StartReaper(rpc)
        /\ Suspend(c, loc[c], "cs_ctx")
     \/ \* async_playwright().start() raised
        /\ UNCHANGED <<playwright, browser, rpc>>
        /\ Return(c, Resp(c, loc[c], "500", None, None))
     \/ \* chromium.launch() raised: self.playwright is set, self.browser is not
        /\ playwright' = TRUE
        /\ UNCHANGED <<browser, rpc>>
        /\ Return(c, Resp(c, loc[c], "500", None, None))
  /\ UNCHANGED <<regVars, tabVars, idVars, now, tr, rloc, ws>>

\* browser.new_context() has answered
CreateSessionContext(c) ==
  /\ pc[c] = "cs_ctx"
  /\ \/ Suspend(c, loc[c], "cs_page")
     \/ Return(c, Resp(c, loc[c], "500", None, None))
  /\ UNCHANGED <<regVars, tabVars, idVars, now, tr, engVars, reapVars, ws>>

\* a tab record as create_session and create_tab build it
NewTabHistory == <<>>
NewTabIndexBad == 1 - 1
NewTabIndex == -1

\* context.new_page() has answered: the session is registered
CreateSessionPage(c) ==
  /\ pc[c] = "cs_page"
  /\ \/ /\ nextSid <= MaxCreated /\ nextTid <= MaxTabs
        /\ sessions' = sessions \cup {nextSid}
        /\ tabs' = [tabs EXCEPT ![nextSid] = <<nextTid>>]
        /\ active_tab_id' = [active_tab_id EXCEPT ![nextSid] = nextTid]
        /\ sess_last_used' = [sess_last_used EXCEPT ![nextSid] = now]
        /\ history' = [history EXCEPT ![nextTid] = NewTabHistory]
        /\ history_index' = [history_index EXCEPT ![nextTid] = NewTabIndex]
        /\ tab_last_used' = [tab_last_used EXCEPT ![nextTid] = now]
        /\ nextSid' = nextSid + 1
        /\ nextTid' = nextTid + 1
        /\ Return(c, Resp(c, loc[c], "created", nextSid, nextTid))
        /\ UNCHANGED lock
     \/ \* context.new_page() raised
        /\ Return(c, Resp(c, loc[c], "500", None, None))
        /\ UNCHANGED <<regVars, tabVars, idVars>>
  /\ UNCHANGED <<now, tr, engVars, reapVars, ws>>

\* ------------------------------------------------------------- create_tab
\* the endpoint and create_tab look the session up; then the session's lock
CreateTabStart(c, via, s) ==
  LET r == Req("create_tab", via, s, None, NoUrl) IN
  /\ Call(c, r)
  /\ IF s \notin sessions
     THEN Return(c, Fail(c, r, "404")) /\ UNCHANGED lock
     ELSE IF lock[s] # None
     THEN Suspend(c, r, "ct_lock") /\ UNCHANGED lock
     ELSE Suspend(c, r, "ct_page") /\ lock' = [lock EXCEPT ![s] = c]
  /\ UNCHANGED <<sessions, tabs, active_tab_id, sess_last_used, tabVars,
                 idVars, now, tr, engVars, reapVars, ws>>

CreateTabLock(c) ==
  /\ pc[c] = "ct_lock" /\ lock[loc[c].sid] = None
  /\ lock' = [lock EXCEPT ![loc[c].sid] = c]
  /\ Suspend(c, loc[c], "ct_page")
  /\ UNCHANGED <<sessions, tabs, active_tab_id, sess_last_used, tabVars,
                 idVars, now, tr, engVars, reapVars, ws>>

\* context.new_page() has answered, under the lock
CreateTabPage(c) ==
  /\ pc[c] = "ct_page"
  /\ LET s == loc[c].sid IN
     /\ lock' = [lock EXCEPT ![s] = None]
     /\ \/ /\ nextTid <= MaxTabs
           /\ tabs' = [tabs EXCEPT ![s] = Append(@, nextTid)]
           /\ history' = [history EXCEPT ![nextTid] = NewTabHistory]
           /\ history_index' = [history_index EXCEPT ![nextTid] = NewTabIndex]
           /\ tab_last_used' = [tab_last_used EXCEPT ![nextTid] = now]
           /\ active_tab_id' = [active_tab_id EXCEPT ![s] = nextTid]
           /\ sess_last_used' = [sess_last_used EXCEPT ![s] = now]
           /\ nextTid' = nextTid + 1
           /\ Return(c, Resp(c, loc[c], "tab_created", s, nextTid))
           /\ ws' = IF loc[c].via = "ws"
                    THEN [ws EXCEPT ![c].active_tab_id = nextTid]
                    ELSE ws
        \/ \* context.new_page() raised
           /\ Return(c, Fail(c, loc[c], "500"))
           /\ UNCHANGED <<tabs, active_tab_id, sess_last_used, tabVars,
                          nextTid, ws>>
  /\ UNCHANGED <<sessions, nextSid, now, tr, engVars, reapVars>>

\* -------------------------------------------------------------- close_tab
\* `if not tabs`
NoTabsLeftNever(tb) == FALSE
NoTabsLeft(tb) == tb = <<>>

\* next(iter(tabs.keys())), and next(iter(tabs.keys()), None)
FirstTab(tb) == IF tb = <<>> THEN None ELSE Head(tb)

\* the active-tab pointer after tab t was removed, tb being what is left
Repoint(a, t, tb) == IF a = t THEN FirstTab(tb) ELSE a

\* close_tab returns to its caller, the registry and the pointer being reg, act
CloseTabAnswer(c, reg, act) ==
  LET r == loc[c] IN
  IF r.via = "http"
  THEN /\ Return(c, Resp(c, r, "closed", r.sid, r.tid))
       /\ UNCHANGED ws
  ELSE IF r.sid \notin reg
  THEN \* `await websocket.close()` and `return`
       Leave(c, Resp(c, r, "session_closed", r.sid, r.tid))
  ELSE /\ Return(c, Resp(c, r, "tab_closed", r.sid, r.tid))
       /\ ws' = [ws EXCEPT ![c].active_tab_id = act]

\* under the lock: the tab is looked up and popped, then page.close() suspends
CloseTabLocked(c, r) ==
  IF ~Has(tabs[r.sid], r.tid)
  THEN /\ Return(c, Fail(c, r, "404"))
       /\ lock' = [lock EXCEPT ![r.sid] = None]
       /\ UNCHANGED tabs
  ELSE /\ tabs' = [tabs EXCEPT ![r.sid] = Without(@, r.tid)]
       /\ lock' = [lock EXCEPT ![r.sid] = c]
       /\ Suspend(c, [r EXCEPT !.only = (Without(tabs[r.sid], r.tid) = <<>>)],
                  "xt_page")

CloseTabStart(c, via, s, t) ==
  LET r == Req("close_tab", via, s, t, NoUrl) IN
  /\ Call(c, r)
  /\ IF s \notin sessions
     THEN Return(c, Fail(c, r, "404")) /\ UNCHANGED <<tabs, lock>>
     ELSE IF lock[s] # None
     THEN Suspend(c, r, "xt_lock") /\ UNCHANGED <<tabs, lock>>
     ELSE CloseTabLocked(c, r)
  /\ UNCHANGED <<sessions, active_tab_id, sess_last_used, tabVars, idVars,
                 now, tr, engVars, reapVars, ws>>

CloseTabLock(c) ==
  /\ pc[c] = "xt_lock" /\ lock[loc[c].sid] = None
  /\ CloseTabLocked(c, loc[c])
  /\ UNCHANGED <<sessions, active_tab_id, sess_last_used, tabVars, idVars,
                 now, tr, engVars, reapVars, ws>>

\* page.close() has answered (an error is swallowed)
CloseTabPage(c) ==
  /\ pc[c] = "xt_page"
  /\ LET s == loc[c].sid
         t == loc[c].tid
     IN IF NoTabsLeft(tabs[s])
        THEN IF s \in sessions
             THEN \* close_session: suspend in ctx.close()
                  /\ Suspend(c, loc[c], "xt_ctx")
                  /\ UNCHANGED <<active_tab_id, sess_last_used, lock, ws>>
             ELSE /\ lock' = [lock EXCEPT ![s] = None]
                  /\ CloseTabAnswer(c, sessions, active_tab_id[s])
                  /\ UNCHANGED <<active_tab_id, sess_last_used>>
        ELSE /\ active_tab_id' =
                  [active_tab_id EXCEPT ![s] = Repoint(@, t, tabs[s])]
             /\ sess_last_used' = [sess_last_used EXCEPT ![s] = now]
             /\ lock' = [lock EXCEPT ![s] = None]
             /\ CloseTabAnswer(c, sessions,
                               Repoint(active_tab_id[s], t, tabs[s]))
  /\ UNCHANGED <<sessions, tabs, tabVars, idVars, now, tr, engVars, reapVars>>

\* ctx.close() has answered (an error is swallowed): the session is popped
CloseTabContext(c) ==
  /\ pc[c] = "xt_ctx"
  /\ sessions' = sessions \ {loc[c].sid}
  /\ lock' = [lock EXCEPT ![loc[c].sid] = None]
  /\ CloseTabAnswer(c, sessions \ {loc[c].sid}, active_tab_id[loc[c].sid])
  /\ UNCHANGED <<tabs, active_tab_id, sess_last_used, tabVars, idVars, now, tr,
                 engVars, reapVars>>

\* ----------------------------------------------------------- activate_tab
\* session["active_tab_id"] = tab_id
KeepActive(a, s, t) == a
SetActive(a, s, t) == [a EXCEPT ![s] = t]

ActivateTab(c, via, s, t) ==
  LET r == Req("activate_tab", via, s, t, NoUrl) IN
  /\ Call(c, r)
  /\ IF s \notin sessions \/ ~Has(tabs[s], t)
     THEN /\ Return(c, Fail(c, r, "404"))
          /\ UNCHANGED <<active_tab_id, sess_last_used, tab_last_used, ws>>
     ELSE /\ active_tab_id' = SetActive(active_tab_id, s, t)
          /\ sess_last_used' = [sess_last_used EXCEPT ![s] = now]
          /\ tab_last_used' = [tab_last_used EXCEPT ![t] = now]
          /\ IF via = "http"
             THEN /\ Return(c, Resp(c, r, "active", s, t))
                  /\ UNCHANGED ws
             ELSE \* send_state("tab_activated"), which may be a duplicate
                  /\ Return(c, Resp(c, r,
                       IF Dedup("tab_activated", ws[c].last_sent_state)
                       THEN "none" ELSE "tab_activated", s, t))
                  /\ ws' = [ws EXCEPT ![c] =
                       send_state([@ EXCEPT !.active_tab_id = t],
                                  "tab_activated")]
  /\ UNCHANGED <<sessions, tabs, lock, history, history_index, idVars, now, tr,
                 engVars, reapVars>>

\* ---------------------------------------------- close_session (endpoint)
\* get_session returns a session (not None)
get_session_always(s) == TRUE
get_session(s) == s \in sessions

CloseSessionStart(c, s) ==
  LET r == Req("close_session", "http", s, None, NoUrl) IN
  /\ Call(c, r)
  /\ IF ~get_session(s)
     THEN Return(c, Fail(c, r, "404"))
     ELSE Suspend(c, r, "xs_ctx")
  /\ UNCHANGED <<regVars, tabVars, idVars, now, tr, engVars, reapVars, ws>>

\* ctx.close() has answered (an error is swallowed): the session is popped
CloseSessionContext(c) ==
  /\ pc[c] = "xs_ctx"
  /\ sessions' = sessions \ {loc[c].sid}
  /\ Return(c, Resp(c, loc[c], "closed", loc[c].sid, None))
  /\ UNCHANGED <<tabs, active_tab_id, sess_last_used, lock, tabVars, idVars,
                 now, tr, engVars, reapVars, ws>>

\* ------------------------------------------------------------- the reaper
TabExpired(t, rnow) ==
  (rnow - tab_last_used[t]) * TickSeconds > TAB_TTL_SECONDS

SessExpired(s, rnow) ==
  (rnow - sess_last_used[s]) * TickSeconds > SESSION_TTL_SECONDS

\* the tab-TTL rule: idle for longer than the TTL `and len(tabs) > 1`
ReapsTab(tb, t, rnow) == TabExpired(t, rnow) /\ Len(tb) > 1

\* the first position from ti on in the snapshot whose tab is reaped, or 0
RECURSIVE FirstReaped(_, _, _, _)
FirstReaped(tb, snap, ti, rnow) ==
  IF ti > Len(snap) THEN 0
  ELSE IF ReapsTab(tb, snap[ti], rnow) THEN ti
  ELSE FirstReaped(tb, snap, ti + 1, rnow)

\* close_session's `if session_id in self.sessions`, over to_close from ci on
RECURSIVE NextToClose(_, _, _)
NextToClose(tc, ci, reg) ==
  IF ci > Len(tc) THEN 0
  ELSE IF tc[ci] \in reg THEN ci
  ELSE NextToClose(tc, ci + 1, reg)

\* the reaper after the second loop went on from position ci of to_close
ClosePhase(base, tc, ci, reg) ==
  LET k == NextToClose(tc, ci, reg)
  IN IF k = 0
     THEN [rpc |-> "sleep", rloc |-> [NoRloc EXCEPT !.emptied = base.emptied]]
     ELSE [rpc |-> "sess_close",
           rloc |-> [base EXCEPT !.si = 0, !.snap = <<>>, !.ti = 0,
                                 !.to_close = tc, !.ci = k]]

\* _cleanup_idle run on from session si, position ti of its tab snapshot, up
\* to its next await: the reaper's pc and locals there.  tb and reg are the
\* tab maps and the registry as the sweep sees them.
RECURSIVE Scan(_, _, _, _, _, _, _)
Scan(tb, reg, base, si, snap, ti, tc) ==
  IF si > Len(base.sids)
  THEN ClosePhase(base, tc, 1, reg)
  ELSE LET s == base.sids[si]
           k == FirstReaped(tb[s], snap, ti, base.now)
       IN IF k # 0
          THEN [rpc |-> "tab_close",
                rloc |-> [base EXCEPT !.si = si, !.snap = snap, !.ti = k,
                                      !.to_close = tc, !.ci = 0]]
          ELSE Scan(tb, reg, base, si + 1,
                    IF si + 1 <= Len(base.sids)
                    THEN tb[base.sids[si + 1]] ELSE <<>>,
                    1,
                    IF SessExpired(s, base.now) THEN Append(tc, s) ELSE tc)

\* asyncio.sleep(CLEANUP_INTERVAL_SECONDS) is over: _cleanup_idle starts
ReaperSweep ==
  /\ rpc = "sleep"
  /\ LET sids == SortedSeq(sessions)
         base == [NoRloc EXCEPT !.now = now, !.sids = sids]
         nxt == Scan(tabs, sessions, base, 1,
                     IF sids = <<>> THEN <<>> ELSE tabs[sids[1]], 1, <<>>)
     IN rpc' = nxt.rpc /\ rloc' = nxt.rloc
  /\ resp' = NoResp
  /\ UNCHANGED <<regVars, tabVars, idVars, now, tr, engVars, cliVars>>

\* tab["page"].close() has answered (an error is swallowed): the tab is popped
ReaperTabClosed ==
  /\ rpc = "tab_close"
  /\ LET s == rloc.sids[rloc.si]
         t == rloc.snap[rloc.ti]
         left == Without(tabs[s], t)
         tb == [tabs EXCEPT ![s] = left]
         base == [rloc EXCEPT !.emptied =
                    IF Has(tabs[s], t) /\ left = <<>> THEN @ \cup {s} ELSE @]
         nxt == Scan(tb, sessions, base, rloc.si, rloc.snap, rloc.ti + 1,
                     rloc.to_close)
     IN /\ tabs' = tb
        /\ active_tab_id' = [active_tab_id EXCEPT ![s] = Repoint(@, t, left)]
        /\ rpc' = nxt.rpc /\ rloc' = nxt.rloc
  /\ resp' = NoResp
  /\ UNCHANGED <<sessions, sess_last_used, lock, tabVars, idVars, now, tr,
                 engVars, cliVars>>

\* where the reaper goes on, nxt being the rest of its sweep, after a close
\* that raised: close_session swallows the exception of ctx.close(), and the
\* second loop logs whatever close_session raises
SweepStopsOnFailure(nxt) == [rpc |-> "off", rloc |-> NoRloc]
AfterFailedClose(nxt) == nxt

\* close_session's ctx.close() has answered, or has raised: the session is
\* popped
ReaperSessionClosed ==
  /\ rpc = "sess_close"
  /\ LET s == rloc.to_close[rloc.ci]
         rest == ClosePhase(rloc, rloc.to_close, rloc.ci + 1, sessions \ {s})
     IN /\ sessions' = sessions \ {s}
        /\ \E nxt \in {rest, AfterFailedClose(rest)} :
             rpc' = nxt.rpc /\ rloc' = nxt.rloc
  /\ resp' = NoResp
  /\ UNCHANGED <<tabs, active_tab_id, sess_last_used, lock, tabVars, idVars,
                 now, tr, engVars, cliVars>>

\* ---------------------------------------------------- _resolve_tab, get_page
\* the tab id _resolve_tab returns, or None where it raises KeyError
_resolve_tab(s, tab_id) ==
  LET tid == IF tab_id # None THEN tab_id ELSE active_tab_id[s]
  IN IF tid # None /\ Has(tabs[s], tid) THEN tid ELSE None

\* get_page: the tab id resolved, or None where it raises KeyError
get_page(s, tab_id) ==
  IF s \in sessions THEN _resolve_tab(s, tab_id) ELSE None

\* get_page's bump of the two activity timestamps
Bump(s, t) ==
  /\ sess_last_used' = [sess_last_used EXCEPT ![s] = now]
  /\ tab_last_used' = [tab_last_used EXCEPT ![t] = now]

\* the command loop's `data.get("tabId") or active_tab_id`
TargetTab(c, via, t) ==
  IF via = "ws" /\ t = None THEN ws[c].active_tab_id ELSE t

\* ---------------------------------------------------------------- navigate
Min(a, b) == IF a < b THEN a ELSE b

\* h[:n]
Slice(h, n) == SubSeq(h, 1, Min(n, Len(h)))

\* tab["history"] after the three lines that record a navigation to u
TruncateAppend(h, i, u) == Append(Slice(h, i + 1), u)

\* tab["history_index"] = len(tab["history"]) - 1
LastIndex(h) == Len(h) - 1

\* the history of tab t records u (commit), and the tab rt has had one more
\* successful navigation (count)
Record(commit, t, u) ==
  IF commit
  THEN /\ history_index[t] + 2 <= MaxHist
       /\ history' = [history EXCEPT ![t] =
                        TruncateAppend(@, history_index[t], u)]
       /\ history_index' = [history_index EXCEPT ![t] =
            LastIndex(TruncateAppend(history[t], history_index[t], u))]
  ELSE UNCHANGED <<history, history_index>>

TrNav(commit, t, count, rt) ==
  [x \in TabIds |->
     LET a == IF commit /\ x = t
              THEN [tr[x] EXCEPT !.bf = "none", !.c0 = 0, !.h0 = <<>>]
              ELSE tr[x]
     IN IF count /\ x = rt /\ a.pure
        THEN [a EXCEPT !.navs = Min(@ + 1, MaxHist + 1)]
        ELSE a]

\* the ways _google_cse_search raises: the credentials are not configured,
\* raise_for_status on a non-2xx answer, the request timed out, the network
CseFailures == {"no_credentials", "http_error", "timeout", "network_error"}

\* _render_search_results_html lets the failure of the search call out
\* (`except Exception` returns the fallback page instead)
SearchRaisesOnFailure(cse) == cse \in CseFailures
SearchRaises(cse) == FALSE

\* the page _render_search_results_html returns: `except Exception` does not
\* tell the failures apart
Rendered(cse) == IF cse \in CseFailures THEN "fallback" ELSE "results"

\* _render_search_results_html is over, the search call having ended as cse:
\* its page goes to page.set_content
Render(c, r, cse) ==
  IF SearchRaises(cse)
  THEN Return(c, Fail(c, [r EXCEPT !.cse = Rendered(cse)], "500"))
  ELSE Suspend(c, [r EXCEPT !.cse = Rendered(cse), !.asked = TRUE],
               "nav_wait")

\* the navigate command sets its flag and notifies: `is_navigating = True`,
\* send_state("navigating")
NavigateBegins(c, via) ==
  ws' = IF via = "ws"
        THEN [ws EXCEPT ![c] =
                send_state([@ EXCEPT !.is_navigating = TRUE], "navigating")]
        ELSE ws

\* its finally block: `is_navigating = False`, send_state("idle")
NavigateEndsFlagLeft(c, via) ==
  ws' = IF via = "ws"
        THEN [ws EXCEPT ![c] = send_state(@, "idle")]
        ELSE ws
NavigateEnds(c, via) ==
  ws' = IF via = "ws"
        THEN [ws EXCEPT ![c] =
                send_state([@ EXCEPT !.is_navigating = FALSE], "idle")]
        ELSE ws

\* the endpoint, or the command loop up to its first await that suspends
navigate(c, via, s, t, url) ==
  LET tab_id == TargetTab(c, via, t)
      rt == get_page(s, tab_id)
      r0 == Req("navigate", via, s, tab_id, url)
      r == [r0 EXCEPT !.tid = IF via = "http" THEN rt ELSE tab_id,
                      !.rtid = rt]
  IN /\ Call(c, r0)
     /\ IF rt = None
        THEN /\ Return(c, Fail(c, r0, "404"))
             /\ UNCHANGED <<sess_last_used, tab_last_used, ws>>
        ELSE /\ Bump(s, rt)
             /\ NavigateBegins(c, via)
             /\ IF _is_internal(url) /\ _parse_internal_search(url)
                THEN \/ Render(c, r, "no_credentials")
                     \/ \* the search request is sent
                        Suspend(c, r, "nav_search")
                ELSE Suspend(c, [r EXCEPT !.asked = TRUE], "nav_wait")
     /\ UNCHANGED <<sessions, tabs, active_tab_id, lock, history,
                    history_index, idVars, now, tr, engVars, reapVars>>

\* client.get of _google_cse_search has answered, or has raised
NavigateSearched(c) ==
  /\ pc[c] = "nav_search"
  /\ \E cse \in {"ok"} \cup (CseFailures \ {"no_credentials"}) :
       Render(c, loc[c], cse)
  /\ UNCHANGED <<regVars, tabVars, idVars, now, tr, engVars, reapVars, ws>>

\* whether a successful navigation to url is written to the tab's history:
\* the endpoint returns before the three lines for an internal URL that is not
\* a search, the command loop runs them for every URL
Records(via, url) ==
  via = "ws" \/ ~_is_internal(url) \/ _parse_internal_search(url)

\* the URL that is recorded: page.url, or the virtual URL as it was asked
Recordable(url) == IF _is_internal(url) THEN {url} ELSE FinalUrls(url)

\* set_content / goto and the waits after it have answered
NavigateDone(c) ==
  /\ pc[c] = "nav_wait"
  /\ LET r == loc[c]
         t == r.tid
     IN \/ \* the engine raised
           /\ Return(c, Fail(c, r, "500"))
           /\ UNCHANGED <<history, history_index, tr>>
        \/ /\ r.via = "http" /\ _is_internal(r.url)
           /\ _parse_internal_search(r.url)
           /\ Record(Records("http", r.url), t, r.url)
           /\ tr' = TrNav(TRUE, t, TRUE, r.rtid)
           /\ Return(c, Resp(c, r, "navigated", r.sid, t))
        \/ \* the "not implemented" page: the endpoint returns at once
           /\ r.via = "http" /\ _is_internal(r.url)
           /\ ~_parse_internal_search(r.url)
           /\ Record(Records("http", r.url), t, r.url)
           /\ tr' = TrNav(FALSE, t, TRUE, r.rtid)
           /\ Return(c, Resp(c, r, "navigated", r.sid, t))
        \/ \* recorded, then `await page.title()`
           /\ r.via = "http" /\ ~_is_internal(r.url)
           /\ \E u \in Recordable(r.url) : Record(Records("http", r.url), t, u)
           /\ tr' = TrNav(TRUE, t, FALSE, r.rtid)
           /\ Suspend(c, r, "nav_title")
        \/ /\ r.via = "ws"
           /\ LET live == r.sid \in sessions /\ Has(tabs[r.sid], t)
              IN /\ \E u \in Recordable(r.url) :
                      Record(live /\ Records("ws", r.url), t, u)
                 /\ tr' = TrNav(live, t, TRUE, r.rtid)
           /\ Return(c, Resp(c, r, "idle", r.sid, t))
  /\ NavigateEnds(c, loc[c].via)
  /\ UNCHANGED <<regVars, tab_last_used, idVars, now, engVars, reapVars>>

\* page.title() has answered
NavigateTitle(c) ==
  /\ pc[c] = "nav_title"
  /\ \/ /\ Return(c, Resp(c, loc[c], "navigated", loc[c].sid, loc[c].tid))
        /\ tr' = TrNav(FALSE, loc[c].tid, TRUE, loc[c].rtid)
     \/ \* page.title() raised: a 500, the URL staying recorded
        /\ Return(c, Fail(c, loc[c], "500"))
        /\ tr' = [tr EXCEPT ![loc[c].tid].pure = FALSE]
  /\ UNCHANGED <<regVars, tabVars, idVars, now, engVars, reapVars, ws>>

\* ------------------------------------------------------- go_back, go_forward
\* `tab["history_index"] > 0`
BackAllowedAtZero(i) == i >= 0
BackAllowed(i) == i > 0

\* `tab["history_index"] < len(tab["history"]) - 1`
ForwardAllowed(h, i) == i < Len(h) - 1

\* `tab["history_index"] -= 1`, `+= 1`
StepBack(i) == i - 1
StepForwardTwice(i) == i + 2
StepForward(i) == i + 1

\* the cursor is at the end the move goes towards
AtBoundary(op, h, i) ==
  IF op = "back" THEN i <= 0 ELSE i = Len(h) - 1

\* what has been done to tab x, after op was handled on it
TrMove(op, x, can) ==
  [tr EXCEPT ![x] =
     IF op = "back" /\ can
     THEN [navs |-> 0, pure |-> FALSE, bf |-> "back",
           c0 |-> history_index[x], h0 |-> history[x]]
     ELSE IF op = "forward" /\ tr[x].bf = "back"
     THEN [tr[x] EXCEPT !.bf = "backfwd"]
     ELSE [NoTr EXCEPT !.pure = FALSE]]

\* go_back / go_forward, or the command loop's back / forward, up to the
\* engine call
Move(c, op, via, s, t) ==
  LET tab_id == TargetTab(c, via, t)
      rt == get_page(s, tab_id)
      tgt == IF via = "http" THEN rt ELSE tab_id
      r0 == Req(op, via, s, tab_id, NoUrl)
      found == via = "http" \/ (s \in sessions /\ Has(tabs[s], tgt))
      can == found /\ IF op = "back"
                      THEN BackAllowed(history_index[tgt])
                      ELSE ForwardAllowed(history[tgt], history_index[tgt])
      r == [r0 EXCEPT !.tid = tgt, !.rtid = rt, !.asked = can,
                      !.boundary = AtBoundary(op, history[rt],
                                              history_index[rt])]
  IN /\ Call(c, r0)
     /\ IF rt = None
        THEN /\ Return(c, Fail(c, r0, "404"))
             /\ UNCHANGED <<sess_last_used, tab_last_used, history_index, tr>>
        ELSE /\ Bump(s, rt)
             /\ tr' = TrMove(op, rt, can)
             /\ IF can
                THEN /\ history_index' = [history_index EXCEPT ![tgt] =
                          IF op = "back" THEN StepBack(@) ELSE StepForward(@)]
                     /\ Suspend(c, r, "bf_wait")
                ELSE /\ UNCHANGED history_index
                     /\ Return(c, Resp(c, r,
                          IF via = "ws" THEN "none"
                          ELSE IF op = "back" THEN "no_history"
                          ELSE "no_forward_history", s, rt))
     /\ UNCHANGED <<sessions, tabs, active_tab_id, lock, history, idVars,
                    now, engVars, reapVars, ws>>

go_back(c, via, s, t) == Move(c, "back", via, s, t)

go_forward(c, via, s, t) == Move(c, "forward", via, s, t)

\* page.go_back() / page.go_forward() has answered
MoveDone(c) ==
  /\ pc[c] = "bf_wait"
  /\ LET r == loc[c]
     IN \/ /\ Return(c, Resp(c, r, IF r.via = "http" THEN "success"
                                   ELSE "none", r.sid, r.rtid))
           /\ UNCHANGED ws
        \/ \* the engine raised: a 500, or the command loop ends
           /\ r.via = "http"
           /\ Return(c, Resp(c, r, "500", r.sid, r.rtid))
           /\ UNCHANGED ws
        \/ /\ r.via = "ws"
           /\ Leave(c, Resp(c, r, "aborted", r.sid, r.rtid))
  /\ UNCHANGED <<regVars, tabVars, idVars, now, tr, engVars, reapVars>>

\* ------------------------------------- click, type, keypress, scroll, refresh
\* the commands that only ask the engine
Acts == {"click", "type", "keypress", "scroll", "refresh"}

\* the status the endpoint of op answers with
ActStatus(op) ==
  CASE op = "click" -> "clicked"
    [] op = "type" -> "typed"
    [] op = "keypress" -> "pressed"
    [] op = "scroll" -> "scrolled"
    [] OTHER -> "refreshed"

\* the endpoint, or the command of the command loop, up to the engine call
Act(c, op, via, s, t) ==
  LET tab_id == TargetTab(c, via, t)
      rt == get_page(s, tab_id)
      r0 == Req(op, via, s, tab_id, NoUrl)
  IN /\ Call(c, r0)
     /\ IF rt = None
        THEN /\ Return(c, Fail(c, r0, "404"))
             /\ UNCHANGED <<sess_last_used, tab_last_used>>
        ELSE /\ Bump(s, rt)
             /\ Suspend(c, [r0 EXCEPT !.rtid = rt, !.asked = TRUE], "act_wait")
     /\ UNCHANGED <<sessions, tabs, active_tab_id, lock, history,
                    history_index, idVars, now, tr, engVars, reapVars, ws>>

\* the engine call has answered
ActDone(c) ==
  /\ pc[c] = "act_wait"
  /\ LET r == loc[c]
     IN \/ /\ Return(c, Resp(c, r, IF r.via = "http" THEN ActStatus(r.op)
                                   ELSE "none", r.sid, r.rtid))
           /\ UNCHANGED ws
        \/ \* the engine raised: a 500, or the command loop ends
           /\ r.via = "http"
           /\ Return(c, Resp(c, r, "500", r.sid, r.rtid))
           /\ UNCHANGED ws
        \/ /\ r.via = "ws"
           /\ Leave(c, Resp(c, r, "aborted", r.sid, r.rtid))
  /\ UNCHANGED <<regVars, tabVars, idVars, now, tr, engVars, reapVars>>

\* ---------------------------------------------------------- the frame pump
\* stream_screenshots from the top of its loop to its next await: get_page
\* on the connection's active tab, then the navigation flag
PumpLoop(c) ==
  /\ ws[c].pump = "ready"
  /\ LET s == ws[c].sid
         rt == get_page(s, ws[c].active_tab_id)
     IN IF rt = None
        THEN \* KeyError: send_state("tab_missing"), then sleep
             /\ ws' = [ws EXCEPT ![c] = send_state(@, "tab_missing")]
             /\ resp' = [NoResp EXCEPT !.op = "pump", !.via = "ws",
                                       !.status = "tab_missing"]
             /\ UNCHANGED <<sess_last_used, tab_last_used>>
        ELSE /\ Bump(s, rt)
             /\ resp' = NoResp
             /\ ws' = IF ws[c].is_navigating
                      THEN ws
                      ELSE [ws EXCEPT ![c].pump = "shot", ![c].shot = rt]
  /\ UNCHANGED <<sessions, tabs, active_tab_id, lock, history, history_index,
                 idVars, now, tr, engVars, reapVars, pc, loc>>

\* page.screenshot() has answered
PumpShot(c) ==
  /\ ws[c].pump = "shot"
  /\ \/ ws' = [ws EXCEPT ![c].pump = "title"]
     \/ \* it raised: logged, then sleep
        ws' = [ws EXCEPT ![c].pump = "ready", ![c].shot = None]
  /\ resp' = NoResp
  /\ UNCHANGED <<regVars, tabVars, idVars, now, tr, engVars, reapVars, pc, loc>>

\* the "tab_id" of a screenshot message made with the local pointer at a,
\* from the page of tab p
FrameTabId(a, p) == a

\* page.title() has answered: the screenshot message is sent
PumpTitle(c) ==
  /\ ws[c].pump = "title"
  /\ ws' = [ws EXCEPT ![c].pump = "ready", ![c].shot = None]
  /\ \/ resp' = [NoResp EXCEPT !.op = "pump", !.via = "ws",
                                !.status = IF ws[c].up THEN "screenshot"
                                           ELSE "none",
                                !.tid = FrameTabId(ws[c].active_tab_id,
                                                   ws[c].shot),
                                !.page = ws[c].shot]
     \/ \* it raised: logged, then sleep
        resp' = NoResp
  /\ UNCHANGED <<regVars, tabVars, idVars, now, tr, engVars, reapVars, pc, loc>>

\* the client goes away while the handler is busy
WsClientGone(c) ==
  /\ ws[c].open /\ ws[c].up
  /\ ws' = [ws EXCEPT ![c].up = FALSE]
  /\ resp' = NoResp
  /\ UNCHANGED <<regVars, tabVars, idVars, now, tr, engVars, reapVars, pc, loc>>

\* ---------------------------------------------------------------- clients
\* a streaming connection is opened on /ws/{session_id}
WsConnect(c, s) ==
  LET r == Req("connect", "ws", s, None, NoUrl) IN
  /\ pc[c] = "idle" /\ ~ws[c].open
  /\ IF s \in sessions
     THEN \* send_state("connected"), and the frame pump is started
          /\ ws' = [ws EXCEPT ![c] =
                      send_state([NoWs EXCEPT !.open = TRUE, !.sid = s,
                                    !.active_tab_id = active_tab_id[s],
                                    !.up = TRUE, !.pump = "ready"],
                                 "connected")]
          /\ resp' = Resp(c, r, "connected", s, active_tab_id[s])
     ELSE /\ resp' = Resp(c, r, "4004", s, None)
          /\ UNCHANGED ws
  /\ UNCHANGED <<regVars, tabVars, idVars, now, tr, engVars, reapVars, pc, loc>>

\* what the end of a connection does to the registry
ForgetSession(reg, s) == reg \ {s}
KeepSession(reg, s) == reg

\* receive_json raises WebSocketDisconnect: the client is gone
WsDisconnect(c) ==
  /\ pc[c] = "idle" /\ ws[c].open
  /\ Leave(c, Resp(c, Req("disconnect", "ws", ws[c].sid, None, NoUrl),
                    "none", ws[c].sid, None))
  /\ sessions' = KeepSession(sessions, ws[c].sid)
  /\ UNCHANGED <<tabs, active_tab_id, sess_last_used, lock, tabVars, idVars,
                 now, tr, engVars, reapVars>>

\* the cancelled frame pump is over: the handler returns
WsEnd(c) ==
  /\ pc[c] = "ws_end"
  /\ pc' = [pc EXCEPT ![c] = "idle"]
  /\ ws' = [ws EXCEPT ![c] = NoWs]
  /\ resp' = [NoResp EXCEPT !.op = "ws_end", !.via = "ws"]
  /\ sessions' = KeepSession(sessions, ws[c].sid)
  /\ UNCHANGED <<tabs, active_tab_id, sess_last_used, lock, tabVars, idVars,
                 now, tr, engVars, reapVars, loc>>

RegistryStep(c) ==
  \/ CreateSessionStart(c)
  \/ CreateSessionLock(c)
  \/ CreateSessionLaunch(c)
  \/ CreateSessionContext(c)
  \/ CreateSessionPage(c)
  \/ \E via \in Vias, s \in CreatedIds : CreateTabStart(c, via, s)
  \/ CreateTabLock(c)
  \/ CreateTabPage(c)
  \/ \E via \in Vias, s \in CreatedIds, t \in TabIds :
       CloseTabStart(c, via, s, t)
  \/ CloseTabLock(c)
  \/ CloseTabPage(c)
  \/ CloseTabContext(c)
  \/ \E via \in Vias, s \in CreatedIds, t \in TabIds :
       ActivateTab(c, via, s, t)
  \/ \E s \in CreatedIds : CloseSessionStart(c, s)
  \/ CloseSessionContext(c)

Next ==
  \/ Tick
  \/ ReaperSweep
  \/ ReaperTabClosed
  \/ ReaperSessionClosed
  \/ \E c \in Clients :
       \/ RegistryStep(c)
       \/ c # 1 /\ \E s \in CreatedIds : WsConnect(c, s)
       \/ WsDisconnect(c)
       \/ WsEnd(c)

Spec == Init /\ [][Next]_vars

\* ------------------------------------------------- navigation on one session
\* one session has been created: the state create_session leaves
InitNav ==
  /\ sessions = {1}
  /\ tabs = [s \in SessionIds |-> IF s = 1 THEN <<1>> ELSE <<>>]
  /\ active_tab_id = [s \in SessionIds |-> IF s = 1 THEN 1 ELSE None]
  /\ sess_last_used = [s \in SessionIds |-> 0]
  /\ lock = [s \in SessionIds |-> None]
  /\ history = [t \in TabIds |-> NewTabHistory]
  /\ history_index = [t \in TabIds |-> NewTabIndex]
  /\ tab_last_used = [t \in TabIds |-> 0]
  /\ nextSid = 2
  /\ nextTid = 2
  /\ now = 0
  /\ playwright = TRUE
  /\ browser = TRUE
  /\ initLock = None
  /\ rpc = "sleep"
  /\ rloc = NoRloc
  /\ pc = [c \in Clients |-> "idle"]
  /\ loc = [c \in Clients |-> NoReq]
  /\ resp = NoResp
  /\ ws = [c \in Clients |-> NoWs]
  /\ tr = [t \in TabIds |-> NoTr]

\* client 1 drives the session over HTTP, every other client over a
\* streaming connection; both name tab 1 or no tab
ViaOf(c) == IF c = 1 THEN "http" ELSE "ws"

NavStep(c) ==
  \/ \E t \in {None, 1}, url \in Urls : navigate(c, ViaOf(c), 1, t, url)
  \/ NavigateSearched(c)
  \/ NavigateDone(c)
  \/ NavigateTitle(c)
  \/ \E t \in {None, 1} : go_back(c, ViaOf(c), 1, t)
  \/ \E t \in {None, 1} : go_forward(c, ViaOf(c), 1, t)
  \/ MoveDone(c)

NextNav ==
  \E c \in Clients :
    \/ NavStep(c)
    \/ ViaOf(c) = "ws" /\ WsConnect(c, 1)
    \/ WsEnd(c)
    \/ CloseTabStart(c, ViaOf(c), 1, 1)
    \/ CloseTabLock(c)
    \/ CloseTabPage(c)
    \/ CloseTabContext(c)

SpecNav == InitNav /\ [][NextNav]_vars

\* ------------------------------------------- one streaming connection
\* the commands of the streaming client, on the session's active tab or tab 1
WsStep(c) ==
  \/ WsConnect(c, 1)
  \/ WsClientGone(c)
  \/ WsDisconnect(c)
  \/ WsEnd(c)
  \/ PumpLoop(c)
  \/ PumpShot(c)
  \/ PumpTitle(c)
  \/ \E t \in {None, 1} : navigate(c, "ws", 1, t, UrlA)
  \/ NavigateDone(c)
  \/ \E t \in {None, 1} : go_back(c, "ws", 1, t)
  \/ \E t \in {None, 1} : go_forward(c, "ws", 1, t)
  \/ MoveDone(c)
  \/ \E op \in Acts, t \in {None, 1} : Act(c, op, "ws", 1, t)
  \/ ActDone(c)
  \/ \E t \in TabIds : ActivateTab(c, "ws", 1, t)

\* a streaming client, and an HTTP client that closes the tab under it
NextWs ==
  \/ \E c \in {d \in Clients : ViaOf(d) = "ws"} : WsStep(c)
  \/ \E c \in {d \in Clients : ViaOf(d) = "http"} :
       \/ CloseTabStart(c, "http", 1, 1)
       \/ CloseTabPage(c)
       \/ CloseTabContext(c)

SpecWs == InitNav /\ [][NextWs]_vars

\* ------------------------------------------------- one session, two tabs
\* a session has been created and a second tab opened in it: the state
\* create_session and then create_tab leave
InitTabs ==
  /\ sessions = {1}
  /\ tabs = [s \in SessionIds |-> IF s = 1 THEN <<1, 2>> ELSE <<>>]
  /\ active_tab_id = [s \in SessionIds |-> IF s = 1 THEN 2 ELSE None]
  /\ sess_last_used = [s \in SessionIds |-> 0]
  /\ lock = [s \in SessionIds |-> None]
  /\ history = [t \in TabIds |-> NewTabHistory]
  /\ history_index = [t \in TabIds |-> NewTabIndex]
  /\ tab_last_used = [t \in TabIds |-> 0]
  /\ nextSid = 2
  /\ nextTid = 3
  /\ now = 0
  /\ playwright = TRUE
  /\ browser = TRUE
  /\ initLock = None
  /\ rpc = "sleep"
  /\ rloc = NoRloc
  /\ pc = [c \in Clients |-> "idle"]
  /\ loc = [c \in Clients |-> NoReq]
  /\ resp = NoResp
  /\ ws = [c \in Clients |-> NoWs]
  /\ tr = [t \in TabIds |-> NoTr]

\* a client's calls on the tabs of the session: a click on a tab or on no tab
\* in particular, activate_tab, close_tab
TabsStep(c) ==
  \/ \E t \in {None} \cup TabIds : Act(c, "click", ViaOf(c), 1, t)
  \/ ActDone(c)
  \/ \E t \in TabIds : ActivateTab(c, ViaOf(c), 1, t)
  \/ \E t \in TabIds : CloseTabStart(c, ViaOf(c), 1, t)
  \/ CloseTabLock(c)
  \/ CloseTabPage(c)
  \/ CloseTabContext(c)

\* an HTTP client and a streaming client with its frame pump
NextTabs ==
  \/ \E c \in Clients : TabsStep(c)
  \/ \E c \in {d \in Clients : ViaOf(d) = "ws"} :
       \/ WsConnect(c, 1)
       \/ WsDisconnect(c)
       \/ WsEnd(c)
       \/ PumpLoop(c)
       \/ PumpShot(c)
       \/ PumpTitle(c)

SpecTabs == InitTabs /\ [][NextTabs]_vars

\* ---------------------------------------------------------------- cleanup
\* the engine has been closed: cleanup is past browser.close()
EngineClosed == \E c \in Clients : pc[c] \in {"sd_stop", "sd_done"}

\* cleanup goes on to its next await: close_session on the next of keys that
\* is registered, then browser.close(), then playwright.stop()
ShutdownGoesOn(c, r, keys, reg) ==
  LET live == SelectSeq(keys, LAMBDA k : k \in reg)
  IN IF live # <<>>
     THEN Suspend(c, [r EXCEPT !.sid = Head(live), !.keys = Tail(live)],
                  "sd_ctx")
     ELSE IF browser
     THEN Suspend(c, [r EXCEPT !.sid = None, !.keys = <<>>], "sd_browser")
     ELSE IF playwright
     THEN Suspend(c, [r EXCEPT !.sid = None, !.keys = <<>>], "sd_stop")
     ELSE /\ pc' = [pc EXCEPT ![c] = "sd_done"]
          /\ loc' = [loc EXCEPT ![c] = NoReq]
          /\ resp' = [NoResp EXCEPT !.op = "shutdown", !.status = "done"]

\* cleanup is called: the stop event is set and the reaper task, if it is
\* running, is cancelled and awaited
ShutdownStart(c) ==
  LET r == Req("shutdown", "none", None, None, NoUrl) IN
  /\ pc[c] = "idle" /\ ~EngineClosed
  /\ \A d \in Clients : loc[d].op # "shutdown"
  /\ IF rpc # "off"
     THEN /\ rpc' = "cancelled"
          /\ UNCHANGED rloc
          /\ Suspend(c, r, "sd_reaper")
     ELSE /\ UNCHANGED <<rpc, rloc>>
          /\ ShutdownGoesOn(c, r, SortedSeq(sessions), sessions)
  /\ UNCHANGED <<regVars, tabVars, idVars, now, tr, engVars, ws>>

\* the reaper task has ended on its CancelledError: cleanup goes on with
\* list(self.sessions.keys())
ShutdownReaped(c) ==
  /\ pc[c] = "sd_reaper"
  /\ rpc' = IF rpc = "cancelled" THEN "off" ELSE rpc
  /\ rloc' = IF rpc = "cancelled" THEN NoRloc ELSE rloc
  /\ ShutdownGoesOn(c, loc[c], SortedSeq(sessions), sessions)
  /\ UNCHANGED <<regVars, tabVars, idVars, now, tr, engVars, ws>>

\* close_session's ctx.close() has answered (an error is swallowed): the
\* session is popped
ShutdownSessionClosed(c) ==
  /\ pc[c] = "sd_ctx"
  /\ sessions' = sessions \ {loc[c].sid}
  /\ ShutdownGoesOn(c, loc[c], loc[c].keys, sessions \ {loc[c].sid})
  /\ UNCHANGED <<tabs, active_tab_id, sess_last_used, lock, tabVars, idVars,
                 now, tr, engVars, reapVars, ws>>

\* browser.close() has answered, or has raised (suppressed)
ShutdownBrowserClosed(c) ==
  /\ pc[c] = "sd_browser"
  /\ Suspend(c, loc[c], "sd_stop")
  /\ UNCHANGED <<regVars, tabVars, idVars, now, tr, engVars, reapVars, ws>>

\* playwright.stop() has answered, or has raised (suppressed): cleanup returns
ShutdownStopped(c) ==
  /\ pc[c] = "sd_stop"
  /\ pc' = [pc EXCEPT ![c] = "sd_done"]
  /\ loc' = [loc EXCEPT ![c] = NoReq]
  /\ resp' = [NoResp EXCEPT !.op = "shutdown", !.status = "done"]
  /\ UNCHANGED <<regVars, tabVars, idVars, now, tr, engVars, reapVars, ws>>

\* ------------------------------------------------- two sessions, the reaper
\* two sessions have been created, with one tab each
InitReap ==
  /\ sessions = {1, 2}
  /\ tabs = [s \in SessionIds |-> IF s <= 2 THEN <<s>> ELSE <<>>]
  /\ active_tab_id = [s \in SessionIds |-> IF s <= 2 THEN s ELSE None]
  /\ sess_last_used = [s \in SessionIds |-> 0]
  /\ lock = [s \in SessionIds |-> None]
  /\ history = [t \in TabIds |-> NewTabHistory]
  /\ history_index = [t \in TabIds |-> NewTabIndex]
  /\ tab_last_used = [t \in TabIds |-> 0]
  /\ nextSid = 3
  /\ nextTid = 3
  /\ now = 0
  /\ playwright = TRUE
  /\ browser = TRUE
  /\ initLock = None
  /\ rpc = "sleep"
  /\ rloc = NoRloc
  /\ pc = [c \in Clients |-> "idle"]
  /\ loc = [c \in Clients |-> NoReq]
  /\ resp = NoResp
  /\ ws = [c \in Clients |-> NoWs]
  /\ tr = [t \in TabIds |-> NoTr]

\* the clock, the reaper, and clients whose calls are activity on a session:
\* a click on its active tab, an activate_tab
NextReap ==
  \/ Tick
  \/ ReaperSweep
  \/ ReaperSessionClosed
  \/ \E c \in Clients :
       \/ \E s \in {1, 2} : Act(c, "click", "http", s, None)
       \/ ActDone(c)
       \/ \E s \in {1, 2} : ActivateTab(c, "http", s, s)

SpecReap == InitReap /\ [][NextReap]_vars

\* the timer of asyncio.sleep fires and the engine answers the reaper's calls;
\* the wall clock goes on
SpecReapFair ==
  /\ SpecReap
  /\ WF_vars(Tick) /\ WF_vars(ReaperSweep) /\ WF_vars(ReaperSessionClosed)

\* the shutdown of the service with two sessions registered: the clock and
\* the reaper, client 1 calling cleanup, the other clients calling
\* create_session and using the sessions meanwhile
NextShut ==
  \/ Tick
  \/ ReaperSweep
  \/ ReaperSessionClosed
  \/ \E c \in {1} :
       \/ ShutdownStart(c)
       \/ ShutdownReaped(c)
       \/ ShutdownSessionClosed(c)
       \/ ShutdownBrowserClosed(c)
       \/ ShutdownStopped(c)
  \/ \E c \in Clients \ {1} :
       \/ CreateSessionStart(c)
       \/ CreateSessionContext(c)
       \/ CreateSessionPage(c)
       \/ \E s \in {1, 2} : ActivateTab(c, "http", s, s)

SpecShut == InitReap /\ [][NextShut]_vars

\* ------------------------------------------------------------ properties
\* the tabs that are in the tab map of a registered session
LiveTab(t) == \E s \in sessions : Has(tabs[s], t)

\* C1: when create_session returns (session_id, tab_id), the registry holds
\* session_id with exactly the one tab tab_id, the session's active-tab
\* pointer is tab_id, and the tab has an empty history and cursor -1.
C1_CreateSessionOneTab ==
  (resp.op = "create_session" /\ resp.status = "created") =>
    /\ resp.sid \in sessions
    /\ tabs[resp.sid] = <<resp.tid>>
    /\ active_tab_id[resp.sid] = resp.tid
    /\ history[resp.tid] = <<>>
    /\ history_index[resp.tid] = -1

\* create_session has just returned a session while another client's
\* request is in flight
C1_Witness ==
  /\ resp.op = "create_session" /\ resp.status = "created"
  /\ \E c \in Clients : pc[c] # "idle"

\* the answers of a close_tab that completed
ClosedStatuses == {"closed", "session_closed", "tab_closed"}

\* C2: whenever close_tab completes on the only tab of a session, the
\* session is no longer registered when close_tab returns, whoever the caller
\* (the close-tab request, the streaming close_tab command) and whatever ran
\* in between.
C2_LastTabClosesSession ==
  (resp.op = "close_tab" /\ resp.last /\ resp.status \in ClosedStatuses) =>
    resp.sid \notin sessions

\* a streaming close_tab of the only tab has just returned
C2_WitnessWs ==
  /\ resp.op = "close_tab" /\ resp.last /\ resp.via = "ws"
  /\ resp.status = "session_closed"

\* C3: in every reachable state, the suspension points inside close_tab,
\* close_session and the reaper's sweep included, every registered session
\* has at least one tab.
C3_NoZeroTabSession == \A s \in sessions : tabs[s] # <<>>

\* C4: in every reachable state, every registered session that has a tab has
\* an active-tab pointer naming a tab of its tab map, also between the removal
\* of the active tab and the repointing.
C4_ActiveTabIsLive ==
  \A s \in sessions : tabs[s] # <<>> => Has(tabs[s], active_tab_id[s])

\* C10: when a sweep of the reaper has finished, no session whose last tab the
\* sweep removed is still registered, also when clients closed tabs while the
\* sweep was suspended (taken once no client request is in flight any more).
C10_SweepCascades ==
  (rpc = "sleep" /\ \A c \in Clients : pc[c] = "idle") =>
    \A s \in rloc.emptied : s \notin sessions

\* C5: for every tab, in every reachable state and after any interleaving of
\* navigate, back and forward over HTTP and over the streaming connection,
\* concurrent ones on the same tab included, -1 <= cursor < Len(history), and
\* the cursor is -1 exactly when the history is empty.
C5_CursorInRange ==
  \A t \in TabIds :
    /\ -1 <= history_index[t]
    /\ history_index[t] < Len(history[t])
    /\ (history_index[t] = -1) <=> (history[t] = <<>>)

\* an HTTP back and a streaming back are in flight on the same tab together,
\* having moved its cursor from 2 to 0
C5_WitnessConcurrentBacks ==
  /\ pc[1] = "bf_wait" /\ pc[2] = "bf_wait"
  /\ loc[1].op = "back" /\ loc[2].op = "back"
  /\ loc[1].tid = loc[2].tid
  /\ loc[1].tid # None
  /\ history_index[loc[1].tid] = 0
  /\ Len(history[loc[1].tid]) = 3

\* tab t has a navigation that has recorded its URL and not yet answered
TitlePending(t) ==
  \E c \in Clients : pc[c] = "nav_title" /\ loc[c].tid = t

\* C6: a tab of a registered session that started with an empty history and
\* has had k successful navigations and nothing else (no back or forward, no
\* navigation that failed) has a history of length k and cursor k - 1,
\* whatever the kind of URL and whether over HTTP or the streaming connection.
C6_HistoryCountsNavigations ==
  \A t \in TabIds :
    (LiveTab(t) /\ tr[t].pure /\ tr[t].navs <= MaxHist /\ ~TitlePending(t)) =>
      /\ Len(history[t]) = tr[t].navs
      /\ history_index[t] = tr[t].navs - 1

\* in this step client c's navigation comes back from the engine without an
\* error: it answers, or goes on to page.title() for its answer
NavSucceeds(c) ==
  /\ pc[c] = "nav_wait"
  /\ \/ pc'[c] = "nav_title"
     \/ /\ pc'[c] = "idle" /\ resp'.op = "navigate"
        /\ resp'.status \in {"navigated", "idle"}

\* C7: a successful navigation on a tab whose cursor c is below the last
\* index replaces the history by its first c + 1 entries followed by the new
\* URL and sets the cursor to the new last index.
C7_NavigateTruncates ==
  [][\A c \in Clients :
       LET t == loc[c].tid IN
       (/\ NavSucceeds(c)
        /\ t # None /\ LiveTab(t)
        /\ history_index[t] < Len(history[t]) - 1) =>
         /\ \E u \in Urls \cup {UrlB} :
              history'[t] =
                Append(SubSeq(history[t], 1, history_index[t] + 1), u)
         /\ history_index'[t] = Len(history'[t]) - 1]_vars

\* C8: on a tab whose cursor c is above 0, a back moves the cursor to c - 1
\* and a forward after it moves it to c again, and neither changes the
\* history.
C8_BackThenForward ==
  \A t \in TabIds :
    /\ tr[t].bf = "back" =>
         history_index[t] = tr[t].c0 - 1 /\ history[t] = tr[t].h0
    /\ tr[t].bf = "backfwd" =>
         history_index[t] = tr[t].c0 /\ history[t] = tr[t].h0

\* a back from a cursor above 0 and then a forward have been handled on a tab
C8_WitnessBackForward ==
  \E t \in TabIds : tr[t].bf = "backfwd" /\ tr[t].c0 > 0 /\ Len(tr[t].h0) > 1

\* the status a move that finds the cursor at its boundary reports
BoundaryStatus(op) == IF op = "back" THEN "no_history" ELSE "no_forward_history"

\* C9: a back on a tab whose cursor is 0 or -1, and a forward on a tab whose
\* cursor is the last index, report the boundary status (no_history,
\* no_forward_history), do not ask the engine to move, and leave every
\* history and cursor as it was.
C9_BoundaryIsNoOp ==
  [][(resp'.op \in {"back", "forward"} /\ resp'.boundary) =>
       /\ resp'.status = BoundaryStatus(resp'.op)
       /\ ~resp'.asked
       /\ history' = history
       /\ history_index' = history_index]_vars

\* in this step the reaper, back from tab["page"].close(), pops its tab
ReaperPops ==
  /\ rpc = "tab_close"
  /\ <<rpc, rloc>>' # <<rpc, rloc>>
  /\ Has(tabs[rloc.sids[rloc.si]], rloc.snap[rloc.ti])

\* C11: the reaper's tab-TTL rule never removes a tab that is the only tab of
\* its session at the moment it is removed, however long the tab has been
\* idle.
C11_ReaperKeepsSoleTab ==
  [][ReaperPops => Len(tabs[rloc.sids[rloc.si]]) > 1]_vars

\* C12: a navigation to an internal search URL whose search call failed
\* (credentials missing, non-2xx answer, timeout, network error) is not ended
\* by that: the fallback page is handed to the engine and, unless the engine
\* itself raises, the answer is a success and the search URL is the newest
\* entry of the tab's history, under the cursor.
C12_SearchFallbackSucceeds ==
  (resp.op = "navigate" /\ resp.cse = "fallback") =>
    /\ resp.asked
    /\ resp.status \notin {"500", "error"} =>
         /\ resp.status \in {"navigated", "idle"}
         /\ (resp.via = "http" \/ LiveTab(resp.tid)) =>
              /\ history[resp.tid] # <<>>
              /\ history_index[resp.tid] = Len(history[resp.tid]) - 1
              /\ _parse_internal_search(
                   history[resp.tid][Len(history[resp.tid])])

\* a navigation whose search call failed has just been answered with
\* success over HTTP, the search URL recorded
C12_WitnessHttp ==
  /\ resp.op = "navigate" /\ resp.cse = "fallback" /\ resp.via = "http"
  /\ resp.status = "navigated"
  /\ history[resp.tid] # <<>>

\* in this step the frame pump of connection c sends a screenshot message
SendsScreenshot(c) ==
  /\ ws[c].pump = "title" /\ ws'[c].pump = "ready"
  /\ resp'.op = "pump" /\ resp'.status = "screenshot"

\* C13: on a streaming connection no screenshot message is sent while the
\* connection's navigation flag is set, a frame whose capture began before
\* the flag was set included.
C13_NoFrameWhileNavigating ==
  [][\A c \in Clients : SendsScreenshot(c) => ~ws[c].is_navigating]_vars

\* C14: on a streaming connection no state notification goes out that has
\* the state name of the state notification that went out before it, also
\* when the frame pump and the command loop both send state notifications.
C14_NoRepeatedState == \A c \in Clients : ~ws[c].dup

\* the frame pump's "tab_missing" went out in the middle of a navigation of
\* the command loop, between its "navigating" and its "idle"
C14_WitnessPumpBetween ==
  \E c \in Clients :
    /\ ws[c].up /\ ws[c].is_navigating
    /\ ws[c].wire = "tab_missing"
    /\ ws[c].pump = "ready"

\* in this step the close-session endpoint is called for session s
CloseSessionCalled(s) ==
  \/ \E c \in Clients :
       pc[c] = "idle" /\ pc'[c] = "xs_ctx" /\ loc'[c].sid = s
  \/ /\ resp'.op = "close_session" /\ resp'.sid = s
     /\ \A c \in Clients : pc[c] = "xs_ctx" => pc'[c] = "xs_ctx"

\* in this step the close_tab of client c, back from page.close() with no tab
\* left, calls close_session for a session that is not registered any more
CloseSessionOnAbsent(c) ==
  /\ pc[c] = "xt_page" /\ pc'[c] # "xt_page"
  /\ NoTabsLeft(tabs[loc[c].sid])
  /\ loc[c].sid \notin sessions

\* C15: close_session of the registry on an id that is not registered changes
\* nothing and raises nothing (its caller goes on to its normal answer); the
\* close-session endpoint called on an id that is not registered answers 404
\* and changes nothing.
C15_CloseAbsentSession ==
  [][/\ \A c \in Clients :
          CloseSessionOnAbsent(c) =>
            /\ resp'.op = "close_tab" /\ resp'.status \in ClosedStatuses
            /\ UNCHANGED <<sessions, tabs, active_tab_id, sess_last_used,
                           tabVars>>
     /\ \A s \in SessionIds :
          (CloseSessionCalled(s) /\ s \notin sessions) =>
            /\ resp'.op = "close_session" /\ resp'.status = "404"
            /\ UNCHANGED <<regVars, tabVars>>]_vars

\* a close_tab is about to resume with no tab left and its session gone (the
\* close-session endpoint has removed it meanwhile), and that endpoint has just
\* been called again and has answered 404
C15_Witness ==
  /\ resp.op = "close_session" /\ resp.status = "404"
  /\ \E c \in Clients :
       /\ pc[c] = "xt_page" /\ loc[c].sid = resp.sid
       /\ tabs[loc[c].sid] = <<>>
       /\ loc[c].sid \notin sessions

\* in this step the engine call of a command of connection c that only the
\* engine can fail (click, type, keypress, scroll, refresh, back, forward)
\* comes back, with its result or raising
EngineAnswers(c) ==
  /\ pc[c] \in {"act_wait", "bf_wait"} /\ loc[c].via = "ws"
  /\ pc'[c] # pc[c]

\* C16: when the engine call of a click, type, keypress, scroll, back, forward
\* or refresh command of a streaming connection comes back, raising or not,
\* the connection stays open: an error is reported in-band at most, the
\* command loop takes the next command and the frame pump keeps running.
C16_EngineFailureKeepsConnection ==
  [][\A c \in Clients :
       EngineAnswers(c) =>
         /\ resp'.status \in {"none", "error"}
         /\ pc'[c] = "idle"
         /\ ws'[c].open /\ ws'[c].pump # "off"]_vars

\* this step belongs to the end of a streaming connection: the disconnect is
\* detected, or the handler returns after its frame pump is cancelled
ConnectionEnds == resp'.op \in {"disconnect", "ws_end"}

\* C17: the end of a streaming connection changes nothing in the registry:
\* the sessions, their tab sets and active-tab pointers, the histories and
\* the cursors are left as they are by the detection of the disconnect and
\* by the return of the handler.
C17_DisconnectKeepsRegistry ==
  [][ConnectionEnds =>
       UNCHANGED <<sessions, tabs, active_tab_id, history, history_index>>]_vars

\* a handler has returned and the session it streamed is still registered,
\* with its tabs
C17_Witness ==
  /\ resp.op = "ws_end"
  /\ \E t \in TabIds : LiveTab(t) /\ Len(history[t]) > 1 /\ history_index[t] = 0

\* this step changes the tab set or the active-tab pointer of the registered
\* session s, or removes s from the registry
TabSetChanges(s) ==
  /\ s \in sessions
  /\ \/ tabs'[s] # tabs[s]
     \/ active_tab_id'[s] # active_tab_id[s]
     \/ s \notin sessions'

\* the session's asyncio.Lock is held over this step: it was held before it,
\* or the step takes it and goes on holding it
LockHeldOver(s) == lock[s] # None \/ lock'[s] # None

\* C18: every change to a session's tab set or active-tab pointer (by
\* create_tab, close_tab, activate_tab, the reaper's tab removal or the close
\* of the session) is made while the session's lock is held.
C18_TabSetChangesUnderLock ==
  [][\A s \in SessionIds : TabSetChanges(s) => LockHeldOver(s)]_vars

\* the clients suspended in async_playwright().start() / chromium.launch()
Launching(p) == {c \in Clients : p[c] = "cs_launch"}

\* in this step client c's initialize gets past start(): chromium.launch() is
\* called
LaunchCalled(c) == pc[c] = "cs_launch" /\ pc'[c] # "cs_launch" /\ playwright'

\* this step is a step of a client's call, not of the reaper loop
ClientStep == \E c \in Clients : pc'[c] # pc[c]

\* C19: whatever the number of concurrent and repeated initialize calls, at
\* most one of them is launching at any moment, the engine is launched only
\* when none has been launched before, a call that finds the engine started
\* launches nothing, and a call leaves a running reaper loop as it is instead
\* of starting a second one.
C19_LaunchOnce ==
  [][/\ Cardinality(Launching(pc')) <= 1
     /\ \A c \in Clients : LaunchCalled(c) => ~playwright
     /\ \A c \in Launching(pc') \ Launching(pc) : ~playwright
     /\ (ClientStep /\ rpc # "off") => UNCHANGED <<rpc, rloc>>]_vars

\* a second call of initialize has gone through, finding the engine launched
\* by the first and the reaper loop at work
C19_Witness ==
  /\ playwright /\ browser /\ rpc = "tab_close"
  /\ sessions # {}
  /\ \E c \in Clients : pc[c] = "cs_ctx" /\ loc[c].op = "create_session"

\* this step is a whole call of activate_tab on the registered session s and
\* the tab id t
ActivateTabCalled(s, t) ==
  /\ resp'.op = "activate_tab" /\ resp'.sid = s /\ resp'.tid = t
  /\ s \in sessions

\* C20: activate_tab on a tab id that is not among the session's tabs fails
\* with tab-not-found (404 over HTTP, an error message on the socket) and
\* leaves the active-tab pointer and every activity timestamp as they were;
\* on a tab id of the session it makes that tab the active one and stamps the
\* session and the tab with the current time.
C20_ActivateTab ==
  [][\A s \in SessionIds : \A t \in TabIds :
       ActivateTabCalled(s, t) =>
         IF Has(tabs[s], t)
         THEN /\ resp'.status \in {"active", "tab_activated", "none"}
              /\ active_tab_id'[s] = t
              /\ sess_last_used'[s] = now /\ tab_last_used'[t] = now
              /\ \A u \in TabIds \ {t} : tab_last_used'[u] = tab_last_used[u]
         ELSE /\ resp'.status \in {"404", "error"}
              /\ UNCHANGED <<active_tab_id, sess_last_used, tab_last_used>>]_vars

\* the older of two tabs has been activated at a later time than it was
\* created: the pointer has moved to it and both timestamps are the new time
C20_Witness ==
  /\ resp.op = "activate_tab" /\ resp.status = "active" /\ resp.sid \in sessions
  /\ Len(tabs[resp.sid]) = 2 /\ tabs[resp.sid][1] = resp.tid
  /\ active_tab_id[resp.sid] = resp.tid
  /\ now > 0 /\ sess_last_used[resp.sid] = now /\ tab_last_used[resp.tid] = now
  /\ tab_last_used[tabs[resp.sid][2]] < now

\* tab id q names a tab of session s
Names(s, q) == q # None /\ Has(tabs[s], q)

\* in this step client c's click went through get_page, which resolved a tab
Resolved(c) == pc[c] = "idle" /\ pc'[c] = "act_wait"

\* in this step get_page refused a click on a registered session
Refused ==
  /\ resp'.op = "click" /\ resp'.status \in {"404", "error"}
  /\ resp'.sid \in sessions

\* C21: tab resolution gives the requested tab when an id is given and that
\* tab is in the session, the session's active tab otherwise; it fails only
\* when neither the requested id nor the active-tab pointer names a tab of
\* the session.
C21_ResolveFallsBack ==
  [][/\ \A c \in Clients :
          Resolved(c) =>
            loc'[c].rtid = IF Names(loc'[c].sid, loc'[c].tid)
                           THEN loc'[c].tid
                           ELSE active_tab_id[loc'[c].sid]
     /\ Refused =>
          /\ ~Names(resp'.sid, resp'.tid)
          /\ ~Names(resp'.sid, active_tab_id[resp'.sid])]_vars

\* C28: every screenshot message carries the id of the tab whose page was
\* captured for that frame, also when activate_tab, new_tab or close_tab moved
\* the connection's local active pointer while the capture was in progress.
C28_FrameNamesCapturedTab ==
  (resp.op = "pump" /\ resp.status = "screenshot") => resp.tid = resp.page

\* in this step the command loop of connection c handles an activate_tab
\* command naming tab t
WsActivates(c, t) ==
  /\ pc[c] = "idle" /\ ws[c].open /\ ws[c].sid \in sessions
  /\ resp'.op = "activate_tab" /\ resp'.via = "ws" /\ resp'.tid = t

\* C22: an activate_tab command on a streaming connection that names a tab of
\* the session sets the connection's local pointer to it and sends a
\* tab_activated notification for it, whatever the notification sent before
\* (another tab's tab_activated included); one that names an absent tab sends
\* an error and leaves the local pointer as it was.
C22_ActivateNotifies ==
  [][\A c \in Clients : \A t \in TabIds :
       WsActivates(c, t) =>
         IF Has(tabs[ws[c].sid], t)
         THEN /\ ws'[c].active_tab_id = t
              /\ resp'.status = "tab_activated"
              /\ ws'[c].last_sent_state = "tab_activated"
         ELSE /\ resp'.status = "error"
              /\ ws'[c].active_tab_id = ws[c].active_tab_id]_vars

\* connection c is in the middle of a navigate command, in p
Navigating(c, p) == p[c] \in {"nav_search", "nav_wait"}

\* C23: a navigate command on a streaming connection sets the in-flight flag
\* and sends `navigating` before the navigation starts; when the navigation
\* is over, having succeeded or raised, the flag is cleared and `idle` is
\* sent, an exception is answered with an error message and the connection
\* stays open; the flag is never set once the command has been handled.
C23_NavigateBrackets ==
  [][\A c \in {d \in Clients : ws[d].open} :
       /\ (~Navigating(c, pc) /\ Navigating(c, pc')) =>
            /\ ws'[c].is_navigating
            /\ ws'[c].last_sent_state = "navigating"
       /\ (Navigating(c, pc) /\ ~Navigating(c, pc')) =>
            /\ resp'.op = "navigate"
            /\ resp'.status \in {"idle", "error"}
            /\ ws'[c].last_sent_state = "idle"
            /\ ws'[c].open /\ ws'[c].pump # "off" /\ pc'[c] = "idle"
       /\ ~Navigating(c, pc') => ~ws'[c].is_navigating]_vars

\* a navigation that raised has been answered with an error on a connection
\* that is still open, its flag cleared and `idle` sent to the client
C23_Witness ==
  /\ resp.op = "navigate" /\ resp.via = "ws" /\ resp.status = "error"
  /\ \E c \in Clients :
       /\ ws[c].open /\ ws[c].up /\ pc[c] = "idle"
       /\ ~ws[c].is_navigating /\ ws[c].wire = "idle"

\* the history and the cursor the navigation logic of transport via leaves on
\* a tab that had history h and cursor i, after a successful navigation to
\* url that ended on u
NavResult(via, h, i, url, u) ==
  IF Records(via, url)
  THEN <<TruncateAppend(h, i, u), LastIndex(TruncateAppend(h, i, u))>>
  ELSE <<h, i>>

\* C24: the navigate endpoint and the navigate command of the streaming
\* connection are the same logic: whenever one of them completes a navigation
\* on a live tab, it leaves the history and the cursor that the other would
\* have left from the same history and cursor, for the same URL and the same
\* final URL reported by the engine.
C24_SameNavigationLogic ==
  [][\A c \in Clients :
       LET t == loc[c].tid IN
       (NavSucceeds(c) /\ t # None /\ LiveTab(t)) =>
         \E u \in Recordable(loc[c].url) :
           \A via \in Vias :
             <<history'[t], history_index'[t]>> =
               NavResult(via, history[t], history_index[t], loc[c].url, u)]_vars

\* in this step the reaper's second loop calls close_session on session s
ReaperCloses(s) ==
  /\ rpc' = "sess_close" /\ <<rpc, rloc>>' # <<rpc, rloc>>
  /\ rloc'.to_close[rloc'.ci] = s

\* C25: the reaper closes a session only if, at the moment it closes it, the
\* session's last activity is older than the session TTL: a session that had
\* activity while the sweep was suspended is left alone.
C25_ReaperClosesIdleOnly ==
  [][\A s \in SessionIds : ReaperCloses(s) => SessExpired(s, now')]_vars

\* session s is registered and its last activity was at tick k
IdleSince(s, k) == s \in sessions /\ sess_last_used[s] = k

C29_CreateTabOnLiveSession ==
  (resp.op = "create_tab" /\ resp.status = "tab_created") =>
    /\ resp.sid \in sessions
    /\ Has(tabs[resp.sid], resp.tid)
    /\ active_tab_id[resp.sid] = resp.tid

\* cleanup is closing the sessions, or is past that
ShutdownClosing ==
  \E c \in Clients : pc[c] \in {"sd_ctx", "sd_browser", "sd_stop", "sd_done"}

\* C27: shutdown runs in order: no reaper loop is alive once shutdown closes
\* sessions, every session is out of the registry before the engine is
\* closed, no reaper loop is alive to take a step once the engine has been
\* closed, and shutdown returns normally whatever the engine's closes did.
C27_ShutdownInOrder ==
  /\ ShutdownClosing => rpc = "off"
  /\ EngineClosed => sessions = {}
  /\ resp.op = "shutdown" => resp.status = "done"

====
